---- MODULE Spec2Model ----
(***************************************************************************)
(* Model of telegram_game_currency_bot.py: the aiogram order flow          *)
(* (OrderFSM and its handlers), the Crypto Pay client (crypto_pay,         *)
(* create_invoice, get_invoice) and the payment check (check_payment),     *)
(* over the sqlite tables catalog and orders.                              *)
(*                                                                         *)
(* Scheduling.  dp is an aiogram 2 Dispatcher run by                       *)
(* executor.start_polling: every update is handled in its own asyncio      *)
(* task, so a handler that awaits a Bot API call (c.answer,                *)
(* message.edit_text, m.answer) is suspended there while other updates,    *)
(* of the same user too, are handled.  Awaits on the MemoryStorage         *)
(* (get_data, update_data, State.set, finish) and the blocking calls       *)
(* (requests.post, sqlite3) never yield to the event loop.  So each        *)
(* handler is one atomic step up to its first Bot API await, and only      *)
(* choose_asset has code after such an await: the state.finish() of        *)
(* lines 197 and 212, modelled by finish_price_error and finish_committed. *)
(*                                                                         *)
(* Filters.  A handler registered without state= runs only while the       *)
(* user's FSM state is None (aiogram 2's StateFilter default); state="*"   *)
(* runs in every state.                                                    *)
(***************************************************************************)
EXTENDS Integers, Sequences, FiniteSets, TLC

\* ---------------------------------------------------------------- bounds
\* how many order ids uuid4 hands out in a run (line 199)
MaxOrders == 2
\* how many choose_asset tasks of one user may be suspended at once
MaxSuspended == 2

\* ------------------------------------------------------------ input sets
Users == {"u1"}

Genshin == "Genshin Impact"
WoW == "World of Warcraft"
Crystals60 == "60 Genesis Crystals"
Crystals330 == "330 Genesis Crystals"
Gold100k == "Gold 100k (EU)"

\* a game no catalog row names
Unlisted == "Dota 2"

\* game and package strings carried by "game:" and "pkg:" callback data
Games == {Genshin, Unlisted}
Packages == {Crystals60}

\* prices in thousandths of a USDT; the sample prices of lines 80-82
Price60 == 1100
Price330 == 5500
PriceGold == 7000
\* a price an operator later writes into the catalog table (1.234 USDT)
PriceEdited == Price60 + 134

\* ASSETS, line 33
ASSETS == <<"USDT", "TON">>
\* asset strings carried by "asset:" callback data
AssetInputs == {"USDT", "DOGE"}

StartText == <<"/", "s", "t", "a", "r", "t">>
\* m.text of a message; <<>> stands for a message without text.  One text
\* of each kind: none, one character, blanks only, plain, padded with blanks
Texts == { <<>>, <<"a">>, <<" ", " ">>, <<"a", "a">>, <<" ", "a", "a", " ">> }
\* the inputs of a plain run: one nickname, one supported asset
PlainTexts == {<<"a", "a">>}
PlainAssets == {"USDT"}

OrderIds == 1..MaxOrders
\* the gateway numbers its invoices 1, 2, ...; an order id is spent on
\* every createInvoice call, so there are never more invoices than that
InvoiceIds == 1..MaxOrders

VARIABLES
    catalog,        \* table catalog: (game, package) -> price_usdt
    orders,         \* table orders: id -> row
    fsm_state,      \* MemoryStorage: user -> FSM state
    fsm_data,       \* MemoryStorage: user -> data dict
    suspended,      \* user -> choose_asset tasks awaiting before state.finish()
    next_order_id,  \* ids already drawn from uuid4
    gw_invoices,    \* Crypto Pay: invoice_id -> invoice
    gw_calls,       \* how many createInvoice requests were sent
    last,           \* history: the last update handled, what its handler read and replied
    prev,           \* history: orders and gw_calls as they were before that update
    repriced,       \* history: user -> the recorded pair was repriced after it was picked
    short_seen,     \* history: user -> a text of length <= 1 came in this entering_nickname
    session_orders, \* history: user -> orders inserted since the last state.finish()
    paid_by         \* history: order id -> invoice whose "paid" status marked it paid

vars == <<catalog, orders, fsm_state, fsm_data, suspended, next_order_id,
          gw_invoices, gw_calls, last, prev, repriced, short_seen, session_orders,
          paid_by>>

\* ------------------------------------------------------------- helpers
\* a Python dict as a function; d.get(k) is None when k is missing
Has(d, k) == k \in DOMAIN d

\* dict.update(k=v), as in state.update_data(k=v)
Put(d, k, v) == [x \in DOMAIN d \cup {k} |-> IF x = k THEN v ELSE d[x]]

EmptyDict == [x \in {} |-> 0]

\* str.strip() of line 182
RECURSIVE lstrip(_)
lstrip(s) == IF s # <<>> /\ Head(s) = " " THEN lstrip(Tail(s)) ELSE s

RECURSIVE rstrip(_)
rstrip(s) == IF s # <<>> /\ s[Len(s)] = " " THEN rstrip(SubSeq(s, 1, Len(s) - 1)) ELSE s

strip(s) == rstrip(lstrip(s))

\* Python's None, kept apart from every dict
None == [none |-> TRUE]

\* truth value of an Optional[dict]: None and {} are falsy (lines 202, 218)
Truthy(x) == x # None /\ DOMAIN x # {}

\* ----------------------------------------------------- catalog (sqlite)
\* rows written by ensure_sample_catalog, lines 79-84
SampleCatalog ==
    (<<Genshin, Crystals60>> :> Price60) @@
    (<<Genshin, Crystals330>> :> Price330) @@
    (<<WoW, Gold100k>> :> PriceGold)

\* select_price as a price list loaded once at start-up would answer
select_price_cached(cat, game, pkg) ==
    IF <<game, pkg>> \in DOMAIN cat
      THEN [price_usdt |-> SampleCatalog[<<game, pkg>>]] ELSE None

\* SELECT price_usdt FROM catalog WHERE game=? AND package=? ; fetchone()
\* (line 193): the row, or None
select_price(cat, game, pkg) ==
    IF <<game, pkg>> \in DOMAIN cat THEN [price_usdt |-> cat[<<game, pkg>>]] ELSE None

\* ------------------------------------------------ Crypto Pay (gateway)
pay_url_of(id) == <<"https://pay/", id>>

\* what requests.post / raise_for_status / r.json() can yield for
\* createInvoice: an exception, or a JSON body
ExcResponse == [exception |-> TRUE]

CreateResponses(id) ==
    { ExcResponse,
      [ok |-> FALSE],
      [ok |-> TRUE],
      [ok |-> TRUE, result |-> [pay_url |-> pay_url_of(id)]],
      [ok |-> TRUE, result |-> [invoice_id |-> id, pay_url |-> pay_url_of(id)]] }

\* the same for getInvoices with invoice_ids = [id]: the gateway lists the
\* invoice when it has it
GetResponses(gw, id) ==
    { ExcResponse, [ok |-> FALSE], [ok |-> TRUE] } \cup
    ( IF id \in DOMAIN gw
        THEN { [ok |-> TRUE,
                result |-> [items |-> <<[invoice_id |-> id, status |-> gw[id].status]>>]] }
        ELSE { [ok |-> TRUE, result |-> [items |-> <<>>]] } )

\* crypto_pay, lines 88-98: (bool(data.get("ok")), data), or (False, error)
crypto_pay(resp) ==
    IF Has(resp, "exception")
      THEN <<FALSE, [error |-> "exception"]>>
      ELSE <<Has(resp, "ok") /\ resp.ok, resp>>

\* round(amount, 2), line 105, on thousandths (no sample price is a tie)
round2(amount) ==
    LET r == amount % 10
    IN  IF r < 5 THEN amount - r ELSE amount - r + 10

\* the request body of createInvoice, lines 103-108
invoice_request(asset, amount, payload) ==
    [asset |-> asset, amount |-> round2(amount), payload |-> payload]

\* the invoice Crypto Pay opens for a createInvoice request it accepts
gateway_invoice(request) ==
    [status |-> "active", asset |-> request.asset, amount |-> request.amount,
     payload |-> request.payload]

\* create_invoice, lines 100-112: data.get("result") when ok, else None
create_invoice(resp) ==
    LET r == crypto_pay(resp)
    IN  IF r[1] THEN (IF Has(r[2], "result") THEN r[2].result ELSE None) ELSE None

\* get_invoice, lines 114-120: the first item, or None
get_invoice(resp) ==
    LET r == crypto_pay(resp)
        arr == IF Has(r[2], "result") /\ Has(r[2].result, "items")
                 THEN r[2].result.items ELSE <<>>
    IN  IF r[1] /\ arr # <<>> THEN arr[1] ELSE None

\* ------------------------------------------------------ orders (sqlite)
\* order_row with order_id written into the invoice_id column as well
order_row_own_id(order_id, user, game, pkg, price, asset, nick, invoice_id, pay_url) ==
    [id |-> order_id, user_id |-> user, game |-> game, package |-> pkg,
     price_usdt |-> price, asset |-> asset, nickname |-> nick,
     status |-> "pending", invoice_id |-> order_id, pay_url |-> pay_url]

\* the row of the INSERT of lines 207-208 (username and created_at are
\* written there and read nowhere; they are left out)
order_row(order_id, user, game, pkg, price, asset, nick, invoice_id, pay_url) ==
    [id |-> order_id, user_id |-> user, game |-> game, package |-> pkg,
     price_usdt |-> price, asset |-> asset, nickname |-> nick,
     status |-> "pending", invoice_id |-> invoice_id, pay_url |-> pay_url]

\* update_paid without its conn.commit(): the UPDATE is lost
update_paid_lost(ords, order_id) == ords

\* update_paid as SET status='paid', price_usdt=0 (nothing left to pay)
update_paid_settled(ords, order_id) ==
    [o \in DOMAIN ords |->
        IF o = order_id THEN [ords[o] EXCEPT !.status = "paid", !.price_usdt = 0]
        ELSE ords[o]]

\* update_paid without its WHERE clause
update_paid_all(ords, order_id) ==
    [o \in DOMAIN ords |-> [ords[o] EXCEPT !.status = "paid"]]

\* UPDATE orders SET status='paid' WHERE id=? (line 224)
update_paid(ords, order_id) ==
    [o \in DOMAIN ords |->
        IF o = order_id THEN [ords[o] EXCEPT !.status = "paid"] ELSE ords[o]]

\* check_payment_orders writing 'pending' back when the invoice is active
check_payment_orders_resync(ords, order_id, inv) ==
    IF ~Truthy(inv) THEN ords
    ELSE IF Has(inv, "status") /\ inv.status = "paid" THEN update_paid(ords, order_id)
    ELSE IF Has(inv, "status") /\ inv.status = "active"
      THEN [o \in DOMAIN ords |->
              IF o = order_id THEN [ords[o] EXCEPT !.status = "pending"] ELSE ords[o]]
    ELSE ords

\* check_payment_orders with "active" taken for a payment too
check_payment_orders_active(ords, order_id, inv) ==
    IF ~Truthy(inv) THEN ords
    ELSE IF Has(inv, "status") /\ inv.status \in {"paid", "active"}
      THEN [o \in DOMAIN ords |->
              IF o = order_id THEN [ords[o] EXCEPT !.status = "paid"] ELSE ords[o]]
    ELSE ords

\* the orders table after check_payment saw inv (lines 221-230)
check_payment_orders(ords, order_id, inv) ==
    IF ~Truthy(inv) THEN ords
    ELSE IF Has(inv, "status") /\ inv.status = "paid" THEN update_paid(ords, order_id)
    ELSE ords

\* check_payment_outcome without the "if not inv" guard of line 218
check_payment_outcome_unguarded(inv) ==
    IF Truthy(inv) /\ Has(inv, "status") /\ inv.status = "paid" THEN "paid_ok"
    ELSE IF Truthy(inv) /\ Has(inv, "status") /\ inv.status = "active" THEN "not_yet"
    ELSE "invoice_invalid"

\* what check_payment tells the user (lines 218-230)
check_payment_outcome(inv) ==
    IF ~Truthy(inv) THEN "check_error"
    ELSE IF Has(inv, "status") /\ inv.status = "paid" THEN "paid_ok"
    ELSE IF Has(inv, "status") /\ inv.status = "active" THEN "not_yet"
    ELSE "invoice_invalid"

\* --------------------------------------------------------- FSM storage
\* OrderFSM, lines 122-126, and None, the state of a user outside the flow
States == {"None", "choosing_game", "choosing_package", "entering_nickname", "choosing_asset"}

\* state.finish(): state None, data dropped
finish_state(st, u) == [st EXCEPT ![u] = "None"]
finish_data(dt, u) == [dt EXCEPT ![u] = EmptyDict]

\* nickname_filter with len(m.text) >= 1
nickname_filter_nonempty(text) == text # <<>> /\ Len(text) >= 1

\* the filter of got_nickname, line 180: m.text and len(m.text) > 1
nickname_filter(text) == text # <<>> /\ Len(text) > 1

\* the commands=["start"] filter of line 160
start_filter(text) == text = StartText

\* the record kept in last: the handler, its user and its reply (outcome);
\* for choose_asset the catalog price of the recorded pair when it ran
\* (listed, 0 without a row), what createInvoice answered (gw) and the order
\* inserted; for check_payment the ids of the callback data, the status the
\* gateway reported (gw) and the status the order had (before); for a
\* callback no handler took, its data and the FSM state it arrived in
Event(handler, u, outcome) ==
    [handler |-> handler, user |-> u, outcome |-> outcome, order_id |-> 0,
     invoice_id |-> 0, listed |-> 0, gw |-> "-", before |-> "-",
     data |-> "-", state |-> "-"]

\* the record kept in prev
Snapshot == [orders |-> orders, gw_calls |-> gw_calls]

\* ---------------------------------------- what the history records read
\* the recorded pair of u resolves in the catalog
PairListed(u) ==
    /\ Has(fsm_data[u], "game")
    /\ Has(fsm_data[u], "package")
    /\ <<fsm_data[u].game, fsm_data[u].package>> \in DOMAIN catalog

\* a createInvoice response that carries an invoice
CreationSucceeds(resp) ==
    /\ ~Has(resp, "exception")
    /\ Has(resp, "ok") /\ resp.ok
    /\ Has(resp, "result") /\ Has(resp.result, "invoice_id")

\* what a getInvoices response reports for the invoice asked for:
\* its status, or "absent"
Reported(resp) ==
    IF /\ ~Has(resp, "exception")
       /\ Has(resp, "ok") /\ resp.ok
       /\ Has(resp, "result") /\ Has(resp.result, "items")
       /\ resp.result.items # <<>>
      THEN resp.result.items[1].status
      ELSE "absent"

\* the event of a choose_asset of u that read resp, were the gateway asked
AssetEvent(u, resp, outcome) ==
    [Event("choose_asset", u, outcome) EXCEPT
       !.listed = IF PairListed(u)
                    THEN catalog[<<fsm_data[u].game, fsm_data[u].package>>] ELSE 0,
       !.gw = IF ~PairListed(u) THEN "-"
              ELSE IF CreationSucceeds(resp) THEN "created" ELSE "failed"]

NoSuspended == [price_error |-> 0, committed |-> 0]

Init ==
    /\ catalog = SampleCatalog
    /\ orders = EmptyDict
    /\ fsm_state = [u \in Users |-> "None"]
    /\ fsm_data = [u \in Users |-> EmptyDict]
    /\ suspended = [u \in Users |-> NoSuspended]
    /\ next_order_id = 1
    /\ gw_invoices = EmptyDict
    /\ gw_calls = 0
    /\ last = Event("-", "-", "-")
    /\ prev = [orders |-> EmptyDict, gw_calls |-> 0]
    /\ repriced = [u \in Users |-> FALSE]
    /\ short_seen = [u \in Users |-> FALSE]
    /\ session_orders = [u \in Users |-> {}]
    /\ paid_by = EmptyDict

\* ------------------------------------------------------------ handlers
\* cmd_start, lines 160-164
cmd_start(u, text) ==
    /\ start_filter(text)
    /\ fsm_state[u] = "None"
    /\ fsm_state' = finish_state(fsm_state, u)
    /\ fsm_data' = finish_data(fsm_data, u)
    /\ session_orders' = [session_orders EXCEPT ![u] = {}]
    /\ last' = Event("cmd_start", u, "games")
    /\ prev' = Snapshot
    /\ short_seen' = [short_seen EXCEPT ![u] = FALSE]
    /\ UNCHANGED <<catalog, orders, suspended, next_order_id, gw_invoices,
                   gw_calls, repriced, paid_by>>

\* pick_game, lines 166-171 (state="*")
pick_game(u, game) ==
    /\ fsm_data' = [fsm_data EXCEPT ![u] = Put(@, "game", game)]
    /\ fsm_state' = [fsm_state EXCEPT ![u] = "choosing_package"]
    /\ last' = Event("pick_game", u, "packages")
    /\ prev' = Snapshot
    /\ short_seen' = [short_seen EXCEPT ![u] = FALSE]
    /\ UNCHANGED <<catalog, orders, suspended, next_order_id, gw_invoices,
                   gw_calls, repriced, session_orders, paid_by>>

\* pick_package, lines 173-178
pick_package(u, pkg) ==
    /\ fsm_state[u] = "choosing_package"
    /\ fsm_data' = [fsm_data EXCEPT ![u] = Put(@, "package", pkg)]
    /\ fsm_state' = [fsm_state EXCEPT ![u] = "entering_nickname"]
    /\ repriced' = [repriced EXCEPT ![u] = FALSE]
    /\ last' = Event("pick_package", u, "ask_nickname")
    /\ prev' = Snapshot
    /\ short_seen' = [short_seen EXCEPT ![u] = FALSE]
    /\ UNCHANGED <<catalog, orders, suspended, next_order_id, gw_invoices,
                   gw_calls, session_orders, paid_by>>

\* got_nickname, lines 180-185
got_nickname(u, text) ==
    /\ fsm_state[u] = "entering_nickname"
    /\ nickname_filter(text)
    /\ fsm_data' = [fsm_data EXCEPT ![u] = Put(@, "nickname", strip(text))]
    /\ fsm_state' = [fsm_state EXCEPT ![u] = "choosing_asset"]
    /\ last' = Event("got_nickname", u, "assets")
    /\ prev' = Snapshot
    /\ short_seen' = [short_seen EXCEPT ![u] = FALSE]
    /\ UNCHANGED <<catalog, orders, suspended, next_order_id, gw_invoices,
                   gw_calls, repriced, session_orders, paid_by>>

\* refused_session with a state.finish() before the return of line 204
refused_session_finished(st, dt, u) == <<finish_state(st, u), finish_data(dt, u)>>

\* the FSM storage after "if not invoice" (lines 202-204): the handler
\* returns without state.finish(), state and data stay
refused_session(st, dt, u) == <<st, dt>>

\* tasks of u suspended before a state.finish()
suspended_count(u) == suspended[u].price_error + suspended[u].committed

\* the id the gateway gives its next invoice
next_invoice_id == Cardinality(DOMAIN gw_invoices) + 1

\* choose_asset, lines 187-211, up to its first await on the Bot API:
\* "price_error" stops at line 196 and "committed" at line 211, both with
\* state.finish() still to come; "gateway_error" ends at line 204; "fault"
\* is the TypeError of int(None) at line 205, which ends the task
choose_asset(u, asset, resp) ==
    /\ fsm_state[u] = "choosing_asset"
    /\ LET data == fsm_data[u]
           game == data.game
           pkg == data.package
           nick == data.nickname
           row == select_price(catalog, game, pkg)
       IN  IF ~Truthy(row)
           THEN /\ suspended_count(u) < MaxSuspended
                /\ suspended' = [suspended EXCEPT ![u].price_error = @ + 1]
                /\ last' = AssetEvent(u, resp, "price_error")
                /\ UNCHANGED <<orders, next_order_id, gw_invoices, gw_calls,
                               session_orders, fsm_state, fsm_data>>
           ELSE LET price == row.price_usdt
                    order_id == next_order_id
                    invoice == create_invoice(resp)
                IN  /\ next_order_id <= MaxOrders
                    /\ next_order_id' = next_order_id + 1
                    /\ gw_calls' = gw_calls + 1
                    /\ gw_invoices' =
                          IF Has(resp, "result") /\ Has(resp.result, "invoice_id")
                            THEN gw_invoices @@
                                 (resp.result.invoice_id :>
                                    gateway_invoice(invoice_request(asset, price, order_id)))
                            ELSE gw_invoices
                    /\ IF ~Truthy(invoice)
                       THEN /\ last' = AssetEvent(u, resp, "gateway_error")
                            /\ fsm_state' = refused_session(fsm_state, fsm_data, u)[1]
                            /\ fsm_data' = refused_session(fsm_state, fsm_data, u)[2]
                            /\ UNCHANGED <<orders, suspended, session_orders>>
                       ELSE IF ~Has(invoice, "invoice_id")
                       THEN /\ last' = AssetEvent(u, resp, "fault")
                            /\ UNCHANGED <<orders, suspended, session_orders,
                                           fsm_state, fsm_data>>
                       ELSE /\ suspended_count(u) < MaxSuspended
                            /\ orders' = orders @@
                                 (order_id :>
                                    order_row(order_id, u, game, pkg, price, asset, nick,
                                              invoice.invoice_id,
                                              IF Has(invoice, "pay_url")
                                                THEN invoice.pay_url ELSE None))
                            /\ suspended' = [suspended EXCEPT ![u].committed = @ + 1]
                            /\ session_orders' = [session_orders EXCEPT ![u] = @ \cup {order_id}]
                            /\ last' = [AssetEvent(u, resp, "committed") EXCEPT
                                          !.order_id = order_id,
                                          !.invoice_id = invoice.invoice_id]
                            /\ UNCHANGED <<fsm_state, fsm_data>>
    /\ prev' = Snapshot
    /\ UNCHANGED <<short_seen, catalog, repriced, paid_by>>

\* finish_price_error with the return of line 197 before state.finish()
finish_price_error_skipped(u) ==
    /\ suspended[u].price_error > 0
    /\ suspended' = [suspended EXCEPT ![u].price_error = @ - 1]
    /\ UNCHANGED <<catalog, orders, fsm_state, fsm_data, next_order_id, gw_invoices,
                   gw_calls, last, prev, repriced, short_seen, session_orders, paid_by>>

\* choose_asset resumed after c.answer: state.finish(), line 197
finish_price_error(u) ==
    /\ suspended[u].price_error > 0
    /\ suspended' = [suspended EXCEPT ![u].price_error = @ - 1]
    /\ fsm_state' = finish_state(fsm_state, u)
    /\ fsm_data' = finish_data(fsm_data, u)
    /\ session_orders' = [session_orders EXCEPT ![u] = {}]
    /\ short_seen' = [short_seen EXCEPT ![u] = FALSE]
    /\ UNCHANGED <<catalog, orders, next_order_id, gw_invoices, gw_calls,
                   last, prev, repriced, paid_by>>

\* choose_asset resumed after message.edit_text: state.finish(), line 212
finish_committed(u) ==
    /\ suspended[u].committed > 0
    /\ suspended' = [suspended EXCEPT ![u].committed = @ - 1]
    /\ fsm_state' = finish_state(fsm_state, u)
    /\ fsm_data' = finish_data(fsm_data, u)
    /\ session_orders' = [session_orders EXCEPT ![u] = {}]
    /\ short_seen' = [short_seen EXCEPT ![u] = FALSE]
    /\ UNCHANGED <<catalog, orders, next_order_id, gw_invoices, gw_calls,
                   last, prev, repriced, paid_by>>

\* check_payment, lines 214-230 (no state=: runs in state None only)
check_payment(u, order_id, invoice_id, resp) ==
    /\ fsm_state[u] = "None"
    /\ LET inv == get_invoice(resp)
           before == IF order_id \in DOMAIN orders THEN orders[order_id].status ELSE "no_row"
       IN  /\ orders' = check_payment_orders(orders, order_id, inv)
           /\ paid_by' =
                 IF /\ order_id \in DOMAIN orders
                    /\ orders[order_id].status # "paid"
                    /\ orders'[order_id].status = "paid"
                   THEN Put(paid_by, order_id, invoice_id)
                   ELSE paid_by
           /\ last' = [Event("check_payment", u, check_payment_outcome(inv)) EXCEPT
                         !.order_id = order_id,
                         !.invoice_id = invoice_id,
                         !.gw = Reported(resp),
                         !.before = before]
    /\ prev' = Snapshot
    /\ UNCHANGED <<short_seen, catalog, fsm_state, fsm_data, suspended, next_order_id,
                   gw_invoices, gw_calls, repriced, session_orders>>

\* a message no handler's filters accept: the dispatcher drops it
unhandled_message(u, text) ==
    /\ ~(start_filter(text) /\ fsm_state[u] = "None")
    /\ ~(nickname_filter(text) /\ fsm_state[u] = "entering_nickname")
    /\ short_seen' = [short_seen EXCEPT ![u] =
                          @ \/ (fsm_state[u] = "entering_nickname" /\ Len(text) <= 1)]
    /\ UNCHANGED <<catalog, orders, fsm_state, fsm_data, suspended, next_order_id,
                   gw_invoices, gw_calls, last, prev, repriced, session_orders, paid_by>>

\* callback data with a prefix that has a handler
Prefixes == {"game", "pkg", "asset", "check"}
\* callback data of the "back" buttons, lines 143 and 151: no handler
BackData == {"back:games", "back:packages"}

\* the state filter of the handler of each prefix (lines 166, 173, 187, 214)
state_filter(prefix, st) ==
    CASE prefix = "game" -> TRUE
      [] prefix = "pkg" -> st = "choosing_package"
      [] prefix = "asset" -> st = "choosing_asset"
      [] prefix = "check" -> st = "None"
      [] OTHER -> FALSE

\* a callback query no handler's filters accept
unhandled_callback(u, data) ==
    /\ ~state_filter(data, fsm_state[u])
    /\ UNCHANGED vars

\* the same for the data of a "back" button, with the history taking note:
\* no handler is registered for it, in any state
back_callback(u, data) ==
    /\ data \in BackData
    /\ ~state_filter(data, fsm_state[u])
    /\ last' = [Event("none", u, "dropped") EXCEPT !.data = data, !.state = fsm_state[u]]
    /\ prev' = Snapshot
    /\ UNCHANGED <<catalog, orders, fsm_state, fsm_data, suspended, next_order_id,
                   gw_invoices, gw_calls, repriced, short_seen, session_orders, paid_by>>

\* ---------------------------------------------------------- environment
\* the shop operator edits a price in the catalog table
catalog_update(game, pkg) ==
    /\ <<game, pkg>> \in DOMAIN catalog
    /\ catalog[<<game, pkg>>] # PriceEdited
    /\ catalog' = [catalog EXCEPT ![<<game, pkg>>] = PriceEdited]
    /\ repriced' = [u \in Users |->
                       \/ repriced[u]
                       \/ /\ Has(fsm_data[u], "package")
                          /\ fsm_data[u].game = game
                          /\ fsm_data[u].package = pkg]
    /\ UNCHANGED <<short_seen, orders, fsm_state, fsm_data, suspended, next_order_id, gw_invoices,
                   gw_calls, last, prev, session_orders, paid_by>>

\* the shop operator deletes a row of the catalog table
catalog_delete(game, pkg) ==
    /\ <<game, pkg>> \in DOMAIN catalog
    /\ catalog' = [k \in DOMAIN catalog \ {<<game, pkg>>} |-> catalog[k]]
    /\ UNCHANGED <<short_seen, orders, fsm_state, fsm_data, suspended, next_order_id, gw_invoices,
                   gw_calls, last, prev, repriced, session_orders, paid_by>>

\* Crypto Pay: an active invoice gets paid, or expires
gateway_settle(id, status) ==
    /\ id \in DOMAIN gw_invoices
    /\ gw_invoices[id].status = "active"
    /\ gw_invoices' = [gw_invoices EXCEPT ![id].status = status]
    /\ UNCHANGED <<short_seen, catalog, orders, fsm_state, fsm_data, suspended, next_order_id,
                   gw_calls, last, prev, repriced, session_orders, paid_by>>

\* the updates users send, with message texts and asset strings drawn
\* from texts and assets
Flow(texts, assets) ==
    \/ \E u \in Users : cmd_start(u, StartText)
    \/ \E u \in Users, game \in Games : pick_game(u, game)
    \/ \E u \in Users, pkg \in Packages : pick_package(u, pkg)
    \/ \E u \in Users, text \in texts : got_nickname(u, text)
    \/ \E u \in Users, asset \in assets, resp \in CreateResponses(next_invoice_id) :
          choose_asset(u, asset, resp)
    \/ \E u \in Users : finish_price_error(u)
    \/ \E u \in Users : finish_committed(u)
    \/ \E u \in Users, text \in texts : unhandled_message(u, text)
    \/ \E u \in Users, data \in Prefixes \cup BackData : unhandled_callback(u, data)

\* the "I have paid" button, with any order and invoice number in its data
Checks ==
    \E u \in Users, order_id \in OrderIds, invoice_id \in InvoiceIds :
       \E resp \in GetResponses(gw_invoices, invoice_id) :
          check_payment(u, order_id, invoice_id, resp)

\* the "I have paid" buttons pay_kb made (line 157): the data of the button
\* of an order names the order and the invoice stored with it
ButtonChecks ==
    \E u \in Users, order_id \in DOMAIN orders :
       \E resp \in GetResponses(gw_invoices, orders[order_id].invoice_id) :
          check_payment(u, order_id, orders[order_id].invoice_id, resp)

\* the "back" buttons of packages_kb and assets_kb, pressed in any state
Backs == \E u \in Users, data \in BackData : back_callback(u, data)

CatalogEdits ==
    \/ \E game \in Games, pkg \in Packages : catalog_update(game, pkg)
    \/ \E game \in Games, pkg \in Packages : catalog_delete(game, pkg)

Settlements ==
    \E id \in InvoiceIds, status \in {"paid", "expired"} : gateway_settle(id, status)

\* every update and every move of the catalog and of the gateway
Next == Flow(Texts, AssetInputs) \/ Backs \/ Checks \/ CatalogEdits \/ Settlements

Spec == Init /\ [][Next]_vars

\* Two parts of Spec that are small enough to explore in full.
\* The order flow under every input and a changing catalog, payments left out
NextFlow == Flow(Texts, AssetInputs) \/ CatalogEdits

\* plain orders, their payment at the gateway and the payment checks
NextPay == Flow(PlainTexts, PlainAssets) \/ Checks \/ Settlements

\* plain orders with everything that happens around them: payments at the
\* gateway, checks from the buttons of the orders and catalog edits
NextOrders == Flow(PlainTexts, PlainAssets) \/ ButtonChecks \/ CatalogEdits \/ Settlements

SpecFlow == Init /\ [][NextFlow]_vars

SpecOrders == Init /\ [][NextOrders]_vars

\* plain orders and the "back" buttons
NextBack == Flow(PlainTexts, PlainAssets) \/ Backs

SpecBack == Init /\ [][NextBack]_vars

SpecPay == Init /\ [][NextPay]_vars

\* ============================================================== claims
\* o is a row of orders and i is the invoice stored in it
OwnInvoice(o, i) == o \in DOMAIN orders /\ orders[o].invoice_id = i

\* C1: a commit whose pair is in the catalog and whose invoice is created
\* inserts exactly one order, priced as the catalog prices the pair at that
\* moment, whatever the price was when the package was picked.
C1_CommitPrice ==
    (last.handler = "choose_asset" /\ last.listed # 0 /\ last.gw = "created")
    => /\ last.outcome = "committed"
       /\ last.order_id \notin DOMAIN prev.orders
       /\ DOMAIN orders = DOMAIN prev.orders \cup {last.order_id}
       /\ \A old \in DOMAIN prev.orders : orders[old] = prev.orders[old]
       /\ orders[last.order_id].price_usdt = last.listed

\* an order was just committed at the edited price, the edit having come
\* after its buyer picked the package
C1_Witness ==
    /\ last.handler = "choose_asset"
    /\ last.gw = "created"
    /\ last.listed = PriceEdited
    /\ last.outcome = "committed"
    /\ orders[last.order_id].price_usdt = PriceEdited
    /\ repriced[last.user]

\* C2: a session (the stretch between two state.finish() of a user)
\* produces at most one order, also when the asset is picked twice.
C2_OneOrderPerSession ==
    \A u \in Users : Cardinality(session_orders[u]) <= 1

\* C3: every paid order was marked paid on a "paid" report for the invoice
\* stored in its own row.
C3_PaidByOwnInvoice ==
    \A o \in DOMAIN orders :
       orders[o].status = "paid" => (o \in DOMAIN paid_by /\ paid_by[o] = orders[o].invoice_id)

\* a check_payment was the last update handled, for an order against the
\* invoice stored in its row
OwnCheck ==
    /\ last.handler = "check_payment"
    /\ OwnInvoice(last.order_id, last.invoice_id)

\* C4: a check of a pending order against its own invoice, reported paid,
\* marks the order paid and tells the buyer the payment was received.
C4_PaidMarksPaid ==
    (OwnCheck /\ last.before = "pending" /\ last.gw = "paid")
    => (orders[last.order_id].status = "paid" /\ last.outcome = "paid_ok")

C4_Witness ==
    /\ OwnCheck
    /\ last.before = "pending"
    /\ last.gw = "paid"
    /\ last.outcome = "paid_ok"
    /\ orders[last.order_id].status = "paid"

\* C5: a check that finds the order's invoice with a status other than
\* "active" and "paid" sets the order's status to invalid.
C5_OtherMarksInvalid ==
    (OwnCheck /\ last.gw \notin {"absent", "active", "paid"})
    => orders[last.order_id].status = "invalid"

\* C6: a check of an order that is already paid, its invoice still reported
\* paid, changes nothing in the orders table and again tells the buyer the
\* payment was received, however often it is repeated.
C6_PaidIdempotent ==
    (OwnCheck /\ last.before = "paid" /\ last.gw = "paid")
    => /\ orders = prev.orders
       /\ orders[last.order_id].status = "paid"
       /\ last.outcome = "paid_ok"

\* a paid order was checked again, with another order still pending
C6_Witness ==
    /\ OwnCheck
    /\ last.before = "paid"
    /\ last.gw = "paid"
    /\ last.outcome = "paid_ok"
    /\ orders[last.order_id].status = "paid"
    /\ \E other \in DOMAIN orders : orders[other].status = "pending"

\* C7: in entering_nickname a text of length 0 or 1 changes neither the
\* state nor the data of the session.
C7_ShortTextIgnored ==
    [][\A u \in Users, text \in Texts :
          ( /\ fsm_state[u] = "entering_nickname"
            /\ Len(text) <= 1
            /\ (cmd_start(u, text) \/ got_nickname(u, text) \/ unhandled_message(u, text)) )
          => (fsm_state'[u] = fsm_state[u] /\ fsm_data'[u] = fsm_data[u])
      ]_vars

C7_Witness ==
    \E u \in Users :
       /\ short_seen[u]
       /\ fsm_state[u] = "entering_nickname"
       /\ ~Has(fsm_data[u], "nickname")

\* C8: a commit whose recorded pair is not in the catalog inserts no order
\* and sends no createInvoice request, and once its task has resumed the
\* session is back in the initial state with no data.
C8_PriceErrorResets ==
    (last.handler = "choose_asset" /\ last.listed = 0)
    => /\ last.outcome = "price_error"
       /\ orders = prev.orders
       /\ gw_calls = prev.gw_calls
       /\ suspended[last.user].price_error = 0
             => /\ fsm_state[last.user] = "None"
                /\ fsm_data[last.user] = EmptyDict

\* the pair was picked, its row deleted, the commit refused and the session reset
C8_Witness ==
    /\ last.handler = "choose_asset"
    /\ last.listed = 0
    /\ last.outcome = "price_error"
    /\ <<Genshin, Crystals60>> \notin DOMAIN catalog
    /\ suspended[last.user] = NoSuspended
    /\ fsm_state[last.user] = "None"
    /\ fsm_data[last.user] = EmptyDict
    /\ orders = EmptyDict
    /\ gw_calls = 0

\* C9: a check that finds the invoice active leaves the orders table as it
\* is and tells the buyer the payment has not arrived yet.
C9_ActiveLeavesPending ==
    (last.handler = "check_payment" /\ last.gw = "active")
    => (orders = prev.orders /\ last.outcome = "not_yet")

C9_Witness ==
    /\ OwnCheck
    /\ last.gw = "active"
    /\ last.before = "pending"
    /\ last.outcome = "not_yet"
    /\ orders[last.order_id].status = "pending"

\* C10: a check whose status fetch yields nothing (the call fails, or the
\* gateway has no such invoice) reports a verification error and leaves the
\* orders table as it is.
C10_AbsentIsError ==
    (last.handler = "check_payment" /\ last.gw = "absent")
    => (orders = prev.orders /\ last.outcome = "check_error")

\* an existing order was checked against an invoice the gateway never made
C10_Witness ==
    /\ last.handler = "check_payment"
    /\ last.gw = "absent"
    /\ last.outcome = "check_error"
    /\ last.order_id \in DOMAIN orders
    /\ last.invoice_id \notin DOMAIN gw_invoices

\* C11: a commit whose createInvoice call fails or brings no invoice inserts
\* no order and leaves the session in choosing_asset with its game, package
\* and nickname as they were, the pair still listed, so that the next asset
\* selection of the session can commit.
C11_GatewayFailureKeepsSession ==
    [][(gw_calls' = gw_calls + 1 /\ last'.gw = "failed")
          => LET u == last'.user
             IN  /\ orders' = orders
                 /\ fsm_state' = fsm_state
                 /\ fsm_data' = fsm_data
                 /\ fsm_state'[u] = "choosing_asset"
                 /\ {"game", "package", "nickname"} \subseteq DOMAIN fsm_data'[u]
                 /\ <<fsm_data'[u].game, fsm_data'[u].package>> \in DOMAIN catalog'
      ]_vars

\* the first createInvoice call of a session failed and the next asset
\* selection committed the session's only order
C11_Witness ==
    /\ last.handler = "choose_asset"
    /\ last.outcome = "committed"
    /\ prev.gw_calls = 1
    /\ prev.orders = EmptyDict
    /\ session_orders[last.user] = {last.order_id}
    /\ fsm_state[last.user] = "choosing_asset"

\* C12: an order whose status is paid or invalid is never pending again,
\* whatever commits and checks follow.
C12_StatusOneWay ==
    [][\A o \in DOMAIN orders :
          orders[o].status \in {"paid", "invalid"}
          => (o \in DOMAIN orders' /\ orders'[o].status # "pending")
      ]_vars

\* a paid order was checked against another, still active invoice and stayed paid
C12_Witness ==
    /\ last.handler = "check_payment"
    /\ last.before = "paid"
    /\ last.gw = "active"
    /\ last.invoice_id # orders[last.order_id].invoice_id
    /\ orders[last.order_id].status = "paid"

\* C13: every order carries the id and the URL of an invoice the gateway
\* opened for a createInvoice request whose payload is the order's id, and
\* the order a commit has just inserted is pending.
C13_OrderOfItsInvoice ==
    /\ \A o \in DOMAIN orders :
          /\ orders[o].id = o
          /\ orders[o].invoice_id \in DOMAIN gw_invoices
          /\ gw_invoices[orders[o].invoice_id].payload = o
          /\ orders[o].pay_url = pay_url_of(orders[o].invoice_id)
          /\ orders[o].status \in {"pending", "paid"}
    /\ (last.handler = "choose_asset" /\ last.outcome = "committed")
          => /\ orders[last.order_id].status = "pending"
             /\ orders[last.order_id].invoice_id = last.invoice_id

\* an order was just inserted whose id differs from its invoice's, an
\* earlier createInvoice call having failed
C13_Witness ==
    /\ last.handler = "choose_asset"
    /\ last.outcome = "committed"
    /\ last.order_id # last.invoice_id
    /\ orders[last.order_id].status = "pending"
    /\ orders[last.order_id].pay_url = pay_url_of(last.invoice_id)

\* C14: no step changes a field other than status of an order that exists,
\* and no step removes an order: commits, checks and catalog edits leave its
\* game, package, price, nickname and invoice as the INSERT wrote them.
C14_OrderFieldsFrozen ==
    [][\A o \in DOMAIN orders :
          /\ o \in DOMAIN orders'
          /\ [orders'[o] EXCEPT !.status = orders[o].status] = orders[o]
      ]_vars

\* an order inserted at the sample price is paid, its catalog row has been
\* repriced since, and a later order of the same pair carries the new price
C14_Witness ==
    \E o \in DOMAIN orders, p \in DOMAIN orders :
       /\ orders[o].status = "paid"
       /\ orders[o].price_usdt = Price60
       /\ orders[p].price_usdt = PriceEdited
       /\ orders[p].game = orders[o].game
       /\ orders[p].package = orders[o].package

\* C15: a "back" callback performs its transition: out of choosing_package
\* to the choice of games with game and package dropped from the data, and
\* out of choosing_asset to choosing_package.
C15_BackTransitions ==
    [][(last' # last /\ last'.handler = "none")
          => LET u == last'.user
             IN  /\ (last'.data = "back:games" /\ fsm_state[u] = "choosing_package")
                       => /\ fsm_state'[u] \in {"None", "choosing_game"}
                          /\ ~Has(fsm_data'[u], "game")
                          /\ ~Has(fsm_data'[u], "package")
                 /\ (last'.data = "back:packages" /\ fsm_state[u] = "choosing_asset")
                       => fsm_state'[u] = "choosing_package"
      ]_vars

\* the games the catalog lists
CatalogGames == {k[1] : k \in DOMAIN catalog}

\* C16: a "game:" callback is taken only where the games are on offer (no
\* state set yet) and only for a game of the catalog; in choosing_package,
\* entering_nickname and choosing_asset, or for another game, it changes
\* neither the state nor the data.
C16_GameOnlyWhereOffered ==
    [][\A u \in Users, game \in Games :
          ( /\ \/ fsm_state[u] \in {"choosing_package", "entering_nickname", "choosing_asset"}
               \/ game \notin CatalogGames
            /\ pick_game(u, game) )
          => (fsm_state'[u] = fsm_state[u] /\ fsm_data'[u] = fsm_data[u])
      ]_vars

\* the supported assets, as a set
SupportedAssets == {ASSETS[k] : k \in DOMAIN ASSETS}

\* C17: every invoice opened at the gateway and every order carries one of
\* the supported assets, whatever string the "asset:" callback carries.
C17_SupportedAssetOnly ==
    /\ \A i \in DOMAIN gw_invoices : gw_invoices[i].asset \in SupportedAssets
    /\ \A o \in DOMAIN orders : orders[o].asset \in SupportedAssets

\* C18: the nickname recorded in a session, and so in every order, is
\* longer than one character, whatever text got_nickname accepted.
C18_NicknameLongerThanOne ==
    /\ \A u \in Users : Has(fsm_data[u], "nickname") => Len(fsm_data[u].nickname) > 1
    /\ \A o \in DOMAIN orders : Len(orders[o].nickname) > 1

\* C19: a check for an order id that has no row in orders, the invoice
\* reported paid, does not tell the user that the payment was received.
C19_MissingOrderNoSuccess ==
    (last.handler = "check_payment" /\ last.before = "no_row" /\ last.gw = "paid")
    => last.outcome # "paid_ok"

\* C20: create_invoice answers None when the call raises or the body has
\* no true "ok", and a commit that asked the gateway ends with an order
\* inserted or a gateway error reported, whatever the gateway answered.
C20_NoUnhandledFault ==
    /\ \A resp \in CreateResponses(next_invoice_id) :
          (Has(resp, "exception") \/ ~(Has(resp, "ok") /\ resp.ok))
          => create_invoice(resp) = None
    /\ (last.handler = "choose_asset" /\ last.listed # 0)
          => last.outcome \in {"committed", "gateway_error"}

====
